---- MODULE Spec2Model ----
(***************************************************************************)
(* Model of app.py, the SENSEX forecasting script: one linear run that     *)
(* loads three models, fetches a daily OHLCV table, normalises its column  *)
(* labels, derives six feature columns, drops incomplete rows, feeds the   *)
(* last remaining row to the three models and displays the decoded result. *)
(*                                                                         *)
(* Floating point numbers are modelled as exact rationals plus the IEEE    *)
(* specials NaN and +/-inf; rounding error is not modelled.                *)
(***************************************************************************)
EXTENDS Integers, Sequences, FiniteSets, TLC

VARIABLES pc, df, errors, exc, latest_input, latest_date, calls,
          pred_close, pred_direction, pred_signal,
          direction_text, signal_text, shown

vars == <<pc, df, errors, exc, latest_input, latest_date, calls,
          pred_close, pred_direction, pred_signal,
          direction_text, signal_text, shown>>

(* ------------------------------ bounds -------------------------------- *)

\* Largest number of daily rows the provider returns in one fetch.
MaxRows == 12

\* A zero-open row, when present, is one of the last MaxZeroOff rows.
MaxZeroOff == 2

\* A day without data, when present, is one of the last MaxGapOff rows or
\* row EarlyGap.
MaxGapOff == 2

EarlyGap == 3

None == [k |-> "none"]

\* The name of an unnamed index, and the choice "no column is absent".
NoName == <<>>

(* --------------------------- float values ----------------------------- *)

RECURSIVE Gcd(_, _)
Gcd(a, b) == IF b = 0 THEN a ELSE Gcd(b, a % b)

Abs(x) == IF x < 0 THEN -x ELSE x

NaN == [k |-> "nan"]

Inf(s) == [k |-> "inf", s |-> s]

\* The rational n/d in lowest terms, d > 0.
Num(n, d) ==
    LET g == Gcd(Abs(n), Abs(d))
        s == IF d < 0 THEN -1 ELSE 1
    IN  [k |-> "num", n |-> s * (n \div g), d |-> s * (d \div g)]

IntVal(n) == [k |-> "num", n |-> n, d |-> 1]

\* The square root of the rational n/d (n >= 0), kept symbolic.
Sqrt(n, d) ==
    LET q == Num(n, d) IN [k |-> "sqrt", n |-> q.n, d |-> q.d]

\* pandas.isna on a float cell: NaN is missing, +/-inf is not.
IsNa(v) == v.k = "nan"

Sign(n) == IF n < 0 THEN -1 ELSE 1

\* a - b on float cells holding rationals or NaN.
FSub(a, b) ==
    IF IsNa(a) \/ IsNa(b) THEN NaN
    ELSE Num(a.n * b.d - b.n * a.d, a.d * b.d)

\* a / b as numpy divides floats: x/0 is +/-inf, 0/0 is NaN.
FDiv(a, b) ==
    IF IsNa(a) \/ IsNa(b) THEN NaN
    ELSE IF a.k = "inf"
         THEN IF b.n = 0 THEN Inf(a.s) ELSE Inf(a.s * Sign(b.n))
    ELSE IF b.n = 0
         THEN IF a.n = 0 THEN NaN ELSE Inf(Sign(a.n))
    ELSE Num(a.n * b.d, a.d * b.n)

\* a * c for an integer literal c > 0.
FMulInt(a, c) ==
    IF IsNa(a) THEN NaN
    ELSE IF a.k = "inf" THEN a
    ELSE Num(a.n * c, a.d)

(* ----------------------------- strings -------------------------------- *)

LowerCase == <<"a","b","c","d","e","f","g","h","i","j","k","l","m",
               "n","o","p","q","r","s","t","u","v","w","x","y","z">>

UpperCase == <<"A","B","C","D","E","F","G","H","I","J","K","L","M",
               "N","O","P","Q","R","S","T","U","V","W","X","Y","Z">>

IsLower(c) == \E i \in 1..26 : LowerCase[i] = c

IsUpper(c) == \E i \in 1..26 : UpperCase[i] = c

IsCased(c) == IsLower(c) \/ IsUpper(c)

ToUpper(c) ==
    IF IsLower(c) THEN UpperCase[CHOOSE i \in 1..26 : LowerCase[i] = c] ELSE c

ToLower(c) ==
    IF IsUpper(c) THEN LowerCase[CHOOSE i \in 1..26 : UpperCase[i] = c] ELSE c

\* str.upper(), used by the provider's upper-case header style.
StrUpper(s) == [i \in 1..Len(s) |-> ToUpper(s[i])]

StrLower(s) == [i \in 1..Len(s) |-> ToLower(s[i])]

RECURSIVE LStrip(_)
LStrip(s) == IF s # <<>> /\ Head(s) = " " THEN LStrip(Tail(s)) ELSE s

RECURSIVE RStrip(_)
RStrip(s) ==
    IF s # <<>> /\ s[Len(s)] = " " THEN RStrip(SubSeq(s, 1, Len(s) - 1)) ELSE s

\* str.strip()
Strip(s) == RStrip(LStrip(s))

\* str.title(): a cased character is upper-cased when it follows an uncased
\* character (or starts the string) and lower-cased otherwise.
Title(s) ==
    [i \in 1..Len(s) |->
        IF i = 1 \/ ~IsCased(s[i - 1]) THEN ToUpper(s[i]) ELSE ToLower(s[i])]

OpenName == <<"O","p","e","n">>
HighName == <<"H","i","g","h">>
LowName == <<"L","o","w">>
CloseName == <<"C","l","o","s","e">>
VolumeName == <<"V","o","l","u","m","e">>
DateName == <<"D","a","t","e">>
IndexName == <<"i","n","d","e","x">>
LastName == <<"L","a","s","t">>
TickerName == <<"^","B","S","E","S","N">>
Sma5Name == <<"S","m","a","_","5">>
Sma10Name == <<"S","m","a","_","1","0">>
PriceRangeName == <<"P","r","i","c","e","_","R","a","n","g","e">>
DailyChangeName == <<"D","a","i","l","y","_","C","h","a","n","g","e","_","%">>
RollingStd5Name == <<"R","o","l","l","i","n","g","_","S","t","d","_","5">>
CloseOverOpenName == <<"C","l","o","s","e","/","O","p","e","n">>

\* The feature list with the two moving averages exchanged.
featuresReordered ==
    << OpenName, HighName, LowName, VolumeName,
       Sma10Name, Sma5Name, PriceRangeName,
       DailyChangeName, RollingStd5Name, CloseOverOpenName >>

\* The feature list in the order the models were trained on.
features ==
    << OpenName, HighName, LowName, VolumeName,
       Sma5Name, Sma10Name, PriceRangeName,
       DailyChangeName, RollingStd5Name, CloseOverOpenName >>

(* --------------------------- data frame ------------------------------- *)

\* Position of label name among the columns, 0 when absent.
ColIdx(d, name) ==
    IF \E i \in 1..Len(d.columns) : d.columns[i] = name
    THEN CHOOSE i \in 1..Len(d.columns) : d.columns[i] = name
    ELSE 0

HasCol(d, name) == ColIdx(d, name) # 0

\* d[name]: the column as a sequence of cells, one per row.
GetCol(d, name) == [i \in 1..Len(d.data) |-> d.data[i][ColIdx(d, name)]]

\* d[name] = vals: replaces the column, or appends it when it is new.
SetCol(d, name, vals) ==
    IF HasCol(d, name)
    THEN [d EXCEPT !.data = [i \in 1..Len(d.data) |->
                                [d.data[i] EXCEPT ![ColIdx(d, name)] = vals[i]]]]
    ELSE [d EXCEPT !.columns = Append(d.columns, name),
                   !.data = [i \in 1..Len(d.data) |-> Append(d.data[i], vals[i])]]

\* DataFrame.empty: no rows or no columns.
IsEmpty(d) == Len(d.data) = 0 \/ Len(d.columns) = 0

RECURSIVE SumN(_, _, _)
\* Sum of the numerators of the integer-valued cells col[lo..hi].
SumN(col, lo, hi) == IF lo > hi THEN 0 ELSE col[hi].n + SumN(col, lo, hi - 1)

RECURSIVE SumSq(_, _, _)
SumSq(col, lo, hi) ==
    IF lo > hi THEN 0 ELSE col[hi].n * col[hi].n + SumSq(col, lo, hi - 1)

\* Rows of the trailing inclusive window ending at row i (1-based).
Window(i, w) == (i - w + 1)..i

\* A rolling window yields a value only when it holds w observations
\* (min_periods defaults to the window size), none of them missing.
WindowFull(col, i, w) == i >= w /\ \A j \in Window(i, w) : ~IsNa(col[j])

\* Series.rolling(window=w).mean()
RollingMean(col, w) ==
    [i \in 1..Len(col) |->
        IF WindowFull(col, i, w) THEN Num(SumN(col, i - w + 1, i), w) ELSE NaN]

\* RollingStd with the population formula (ddof = 0).
RollingStdPopulation(col, w) ==
    [i \in 1..Len(col) |->
        IF WindowFull(col, i, w)
        THEN LET s == SumN(col, i - w + 1, i)
                 q == SumSq(col, i - w + 1, i)
             IN  Sqrt(w * q - s * s, w * w)
        ELSE NaN]

\* Series.rolling(window=w).std(): sample standard deviation (ddof = 1),
\* sqrt((w * sum(x^2) - sum(x)^2) / (w * (w - 1))).
RollingStd(col, w) ==
    [i \in 1..Len(col) |->
        IF WindowFull(col, i, w)
        THEN LET s == SumN(col, i - w + 1, i)
                 q == SumSq(col, i - w + 1, i)
             IN  Sqrt(w * q - s * s, w * (w - 1))
        ELSE NaN]

(* ------------------------- provider response -------------------------- *)

Styles == {"title", "lower", "upper_padded"}

Patterns == {"rise", "saw"}

Canon == {OpenName, HighName, LowName, CloseName, VolumeName, DateName}

\* The provider's spelling of a canonical column name.
Styled(name, style) ==
    CASE style = "title" -> name
      [] style = "lower" -> StrLower(name)
      [] style = "upper_padded" -> <<" ">> \o StrUpper(name) \o <<" ">>

\* A column label: a plain string, or a (name, ticker) tuple of a
\* multi-level header.
Label(s, tuple) ==
    IF tuple THEN [tuple |-> TRUE, items |-> <<s, TickerName>>]
    ELSE [tuple |-> FALSE, str |-> s]

DateOf(i) == [k |-> "date", y |-> 2025, m |-> 9, d |-> i]

BaseClose(i, pattern) ==
    IF pattern = "rise" THEN 20 + i ELSE 20 + 2 * (i % 3)

Max(a, b) == IF a >= b THEN a ELSE b

Min(a, b) == IF a <= b THEN a ELSE b

\* The value columns the provider sends, in its order.
ProviderCols == <<CloseName, HighName, LowName, OpenName, VolumeName>>

\* One day's cells in ProviderCols order.  Row zero has open = 0 (and
\* close = 0 when zeroClose); row gap is a day without data.
ProviderRow(i, pattern, zero, zeroClose, gap) ==
    LET c == IF i = zero /\ zeroClose THEN 0 ELSE BaseClose(i, pattern)
        o == IF i = zero THEN 0 ELSE c - 1
    IN  IF i = gap THEN <<NaN, NaN, NaN, NaN, NaN>>
        ELSE << IntVal(c), IntVal(Max(o, c) + 1), IntVal(Min(o, c)),
                IntVal(o), IntVal(100 * i) >>

RECURSIVE Without(_, _)
\* The positions of seq whose element is not x.
Without(seq, x) ==
    IF seq = <<>> THEN <<>>
    ELSE IF seq[Len(seq)] = x THEN Without(SubSeq(seq, 1, Len(seq) - 1), x)
    ELSE Append(Without(SubSeq(seq, 1, Len(seq) - 1), x), Len(seq))

\* The table yf.download returns: n rows in ascending date order indexed
\* by date, with column absent left out (or sent as "Last" when renamed).
Download(n, pattern, zero, zeroClose, gap, style, tuple, absent, renamed) ==
    LET keep == IF renamed THEN [i \in 1..5 |-> i]
                ELSE Without(ProviderCols, absent)
        name(j) == IF ProviderCols[j] = absent THEN LastName
                   ELSE ProviderCols[j]
    IN  [ index   |-> [name |-> IF absent = DateName THEN NoName ELSE DateName,
                       values |-> [i \in 1..n |-> DateOf(i)]],
          columns |-> [c \in 1..Len(keep) |->
                          Label(Styled(name(keep[c]), style), tuple)],
          data    |-> [i \in 1..n |->
                          [c \in 1..Len(keep) |->
                              ProviderRow(i, pattern, zero, zeroClose, gap)[keep[c]]]] ]

(* ------------------------------ helpers ------------------------------- *)

Digits == <<"0","1","2","3","4","5","6","7","8","9">>

Digit(n) == Digits[n + 1]

\* Timestamp.strftime("%Y-%m-%d")
Strftime(t) ==
    << Digit(t.y \div 1000), Digit((t.y \div 100) % 10),
       Digit((t.y \div 10) % 10), Digit(t.y % 10), "-",
       Digit(t.m \div 10), Digit(t.m % 10), "-",
       Digit(t.d \div 10), Digit(t.d % 10) >>

\* round(x, 2) of a value given in thousandths, in hundredths: ties go to
\* the even neighbour.
Round2(p) ==
    LET q == p \div 10
        r == p % 10
    IN  IF r < 5 THEN q
        ELSE IF r > 5 THEN q + 1
        ELSE IF q % 2 = 0 THEN q ELSE q + 1

\* df.reset_index(inplace=True): the index becomes the first column, named
\* after the index ("index" when the index has no name); under a
\* multi-level header the new label is the tuple (name, "").
ResetIndex(d) ==
    LET nm  == IF d.index.name = NoName THEN IndexName ELSE d.index.name
        lbl == IF Len(d.columns) > 0 /\ d.columns[1].tuple
               THEN [tuple |-> TRUE, items |-> <<nm, <<>>>>]
               ELSE [tuple |-> FALSE, str |-> nm]
    IN  [ index   |-> None,
          columns |-> <<lbl>> \o d.columns,
          data    |-> [i \in 1..Len(d.data) |->
                          <<d.index.values[i]>> \o d.data[i]] ]

\* col[0] if isinstance(col, tuple) else col
Flatten(col) == IF col.tuple THEN col.items[1] ELSE col.str

\* str(col).strip().title()
NormalizeName(col) == Title(Strip(col))

\* The columns each feature statement reads, in evaluation order.
Reads(k) ==
    CASE k = 1 -> <<CloseName>>
      [] k = 2 -> <<CloseName>>
      [] k = 3 -> <<HighName, LowName>>
      [] k = 4 -> <<CloseName, OpenName, OpenName>>
      [] k = 5 -> <<CloseName>>
      [] k = 6 -> <<CloseName, OpenName>>

\* The k-th statement of the feature engineering block.
Stmt(k, d) ==
    LET ColC == GetCol(d, CloseName)
        ColO == GetCol(d, OpenName)
        ColH == GetCol(d, HighName)
        ColL == GetCol(d, LowName)
        rows == 1..Len(d.data)
    IN  CASE k = 1 -> SetCol(d, Sma5Name, RollingMean(ColC, 5))
          [] k = 2 -> SetCol(d, Sma10Name, RollingMean(ColC, 10))
          [] k = 3 -> SetCol(d, PriceRangeName,
                             [i \in rows |-> FSub(ColH[i], ColL[i])])
          [] k = 4 -> SetCol(d, DailyChangeName,
                             [i \in rows |->
                                 FMulInt(FDiv(FSub(ColC[i], ColO[i]), ColO[i]), 100)])
          [] k = 5 -> SetCol(d, RollingStd5Name, RollingStd(ColC, 5))
          [] k = 6 -> SetCol(d, CloseOverOpenName,
                             [i \in rows |-> FDiv(ColC[i], ColO[i])])

KeyError(key, line) == [type |-> "KeyError", key |-> key, line |-> line]

RECURSIVE RunStmts(_, _)
\* Statements k..6 in order; the first read of an absent column raises
\* KeyError and leaves the frame as the earlier statements made it.
RunStmts(d, k) ==
    IF k > 6 THEN [df |-> d, exc |-> None]
    ELSE LET r == Reads(k)
             bad == {j \in 1..Len(r) : ~HasCol(d, r[j])}
         IN  IF bad # {}
             THEN [df |-> d,
                   exc |-> KeyError(r[CHOOSE j \in bad : \A h \in bad : j <= h],
                                    38 + k)]
             ELSE RunStmts(Stmt(k, d), k + 1)

\* The cells of row i in the order of the feature list.
FeatureVec(d, i) ==
    [k \in 1..Len(features) |-> d.data[i][ColIdx(d, features[k])]]

\* A row dropna(subset=features) keeps: no feature cell is missing.
Complete(d, i) == \A k \in 1..Len(features) : ~IsNa(FeatureVec(d, i)[k])

RECURSIVE KeepRows(_, _)
\* The rows of d.data[1..i] that dropna keeps, in order.
KeepRows(d, i) ==
    IF i = 0 THEN <<>>
    ELSE IF Complete(d, i) THEN Append(KeepRows(d, i - 1), d.data[i])
    ELSE KeepRows(d, i - 1)

DropNaRows(d) == [d EXCEPT !.data = KeepRows(d, Len(d.data))]

\* The row .iloc[-1] reads.
LastRow(d) == Len(d.data)

\* LatestInput reading .iloc[0], the oldest remaining row.
LatestInputFirst(d) == FeatureVec(d, 1)

\* df[features].iloc[-1]
LatestInput(d) == FeatureVec(d, LastRow(d))

\* LatestDate reading .iloc[0], the oldest remaining row.
LatestDateFirst(d) == Strftime(GetCol(d, DateName)[1])

\* df['Date'].iloc[-1].strftime("%Y-%m-%d")
LatestDate(d) == Strftime(GetCol(d, DateName)[LastRow(d)])

signal_map == [c \in {0, 1, 2} |->
                  CASE c = 0 -> "SELL" [] c = 1 -> "HOLD" [] c = 2 -> "BUY"]

\* DirectionText testing for the "down" code instead of the "up" code.
DirectionTextZeroDown(code) == IF code = 0 THEN "Down" ELSE "Up"

DirectionText(code) == IF code = 1 THEN "Up" ELSE "Down"

\* SignalText with a trading action as the default label.
SignalTextDefaultHold(code) ==
    IF code \in DOMAIN signal_map THEN signal_map[code] ELSE "HOLD"

\* signal_map.get(code, "Unknown")
SignalText(code) ==
    IF code \in DOMAIN signal_map THEN signal_map[code] ELSE "Unknown"

St_error(msg, detail) == [msg |-> msg, detail |-> detail]

(* ------------------------- environment choices ------------------------ *)

\* Messages of the exceptions joblib.load or a predict call may raise.
Exceptions == {"ValueError", "MemoryError"}

\* Regressor outputs, in thousandths of a rupee.
RegOutputs == {81235, 81245}

\* Class codes a classifier may return.
DirectionCodes == {0, 1, 7}

SignalCodes == {0, 1, 2, 9}

(* ------------------------------ actions ------------------------------- *)

Init ==
    /\ pc = "load"
    /\ df = None
    /\ errors = <<>>
    /\ exc = None
    /\ latest_input = None
    /\ latest_date = None
    /\ calls = <<>>
    /\ pred_close = None
    /\ pred_direction = None
    /\ pred_signal = None
    /\ direction_text = None
    /\ signal_text = None
    /\ shown = None

\* Stop without the st.error call.
StopSilently(msg, detail) ==
    /\ errors' = errors
    /\ pc' = "stopped"

\* st.error(...); st.stop()
Stop(msg, detail) ==
    /\ errors' = Append(errors, St_error(msg, detail))
    /\ pc' = "stopped"

LoadModels ==
    /\ pc = "load"
    /\ \/ /\ pc' = "fetch"
          /\ errors' = errors
       \/ \E e \in Exceptions : Stop("Error loading models", e)
    /\ UNCHANGED <<df, exc, latest_input, latest_date, calls, pred_close,
                   pred_direction, pred_signal, direction_text, signal_text,
                   shown>>

Fetch ==
    /\ pc = "fetch"
    /\ \E n \in 0..MaxRows, pattern \in Patterns, zeroOff \in 0..MaxZeroOff,
          zeroClose \in BOOLEAN, style \in Styles, tuple \in BOOLEAN,
          absent \in Canon \cup {NoName}, renamed \in BOOLEAN :
         \E gap \in {0, EarlyGap} \cup {n + 1 - g : g \in 1..MaxGapOff} :
            /\ gap \in 0..n
            /\ zeroOff = 0 => ~zeroClose
            /\ renamed => absent \in Canon \ {DateName}
            /\ df' = Download(n, pattern,
                              IF zeroOff = 0 THEN 0 ELSE n + 1 - zeroOff,
                              zeroClose, gap, style, tuple, absent, renamed)
    /\ IF IsEmpty(df')
       THEN Stop("Couldn't fetch data from Yahoo Finance.", None)
       ELSE pc' = "normalize" /\ errors' = errors
    /\ UNCHANGED <<exc, latest_input, latest_date, calls, pred_close,
                   pred_direction, pred_signal, direction_text, signal_text,
                   shown>>

Normalize ==
    /\ pc = "normalize"
    /\ LET d == ResetIndex(df)
       IN  df' = [d EXCEPT !.columns =
                     [c \in 1..Len(d.columns) |->
                         NormalizeName(Flatten(d.columns[c]))]]
    /\ pc' = "features"
    /\ UNCHANGED <<errors, exc, latest_input, latest_date, calls, pred_close,
                   pred_direction, pred_signal, direction_text, signal_text,
                   shown>>

FeatureEngineering ==
    /\ pc = "features"
    /\ LET r == RunStmts(df, 1)
       IN  /\ df' = r.df
           /\ exc' = r.exc
           /\ pc' = IF r.exc = None THEN "check" ELSE "crashed"
    /\ UNCHANGED <<errors, latest_input, latest_date, calls, pred_close,
                   pred_direction, pred_signal, direction_text, signal_text,
                   shown>>

CheckColumns ==
    /\ pc = "check"
    /\ LET NotIn(col) == ~HasCol(df, col)
           missing_cols == SelectSeq(features, NotIn)
       IN  IF missing_cols # <<>>
           THEN Stop("Missing columns in data", missing_cols)
           ELSE pc' = "dropna" /\ errors' = errors
    /\ UNCHANGED <<df, exc, latest_input, latest_date, calls, pred_close,
                   pred_direction, pred_signal, direction_text, signal_text,
                   shown>>

DropNa ==
    /\ pc = "dropna"
    /\ df' = DropNaRows(df)
    /\ IF IsEmpty(df')
       THEN Stop("Not enough recent data for prediction.", None)
       ELSE pc' = "latest" /\ errors' = errors
    /\ UNCHANGED <<exc, latest_input, latest_date, calls, pred_close,
                   pred_direction, pred_signal, direction_text, signal_text,
                   shown>>

GetLatest ==
    /\ pc = "latest"
    /\ latest_input' = LatestInput(df)
    /\ IF HasCol(df, DateName)
       THEN /\ latest_date' = LatestDate(df)
            /\ pc' = "predict_reg"
            /\ exc' = exc
       ELSE /\ latest_date' = latest_date
            /\ pc' = "crashed"
            /\ exc' = KeyError(DateName, 67)
    /\ UNCHANGED <<df, errors, calls, pred_close, pred_direction,
                   pred_signal, direction_text, signal_text, shown>>

\* model.predict([latest_input]) inside the try block.
Invoke(model) == calls' = Append(calls, [model |-> model, x |-> latest_input])

PredictRaises == \E e \in Exceptions : Stop("Error during prediction", e)

PredictReg ==
    /\ pc = "predict_reg"
    /\ Invoke("reg_model")
    /\ \/ /\ \E y \in RegOutputs : pred_close' = y
          /\ pc' = "predict_clf"
          /\ errors' = errors
       \/ PredictRaises /\ pred_close' = pred_close
    /\ UNCHANGED <<df, exc, latest_input, latest_date, pred_direction,
                   pred_signal, direction_text, signal_text, shown>>

PredictClf ==
    /\ pc = "predict_clf"
    /\ Invoke("clf_model")
    /\ \/ /\ \E y \in DirectionCodes : pred_direction' = y
          /\ pc' = "predict_signal"
          /\ errors' = errors
       \/ PredictRaises /\ pred_direction' = pred_direction
    /\ UNCHANGED <<df, exc, latest_input, latest_date, pred_close,
                   pred_signal, direction_text, signal_text, shown>>

PredictSignal ==
    /\ pc = "predict_signal"
    /\ Invoke("signal_model")
    /\ \/ /\ \E y \in SignalCodes : pred_signal' = y
          /\ pc' = "decode"
          /\ errors' = errors
       \/ PredictRaises /\ pred_signal' = pred_signal
    /\ UNCHANGED <<df, exc, latest_input, latest_date, pred_close,
                   pred_direction, direction_text, signal_text, shown>>

Decode ==
    /\ pc = "decode"
    /\ direction_text' = DirectionText(pred_direction)
    /\ signal_text' = SignalText(pred_signal)
    /\ pc' = "display"
    /\ UNCHANGED <<df, errors, exc, latest_input, latest_date, calls,
                   pred_close, pred_direction, pred_signal, shown>>

Display ==
    /\ pc = "display"
    /\ shown' = [ date      |-> latest_date,
                  table     |-> latest_input,
                  close     |-> Round2(pred_close),
                  direction |-> direction_text,
                  signal    |-> signal_text ]
    /\ pc' = "done"
    /\ UNCHANGED <<df, errors, exc, latest_input, latest_date, calls,
                   pred_close, pred_direction, pred_signal, direction_text,
                   signal_text>>

Next ==
    \/ LoadModels
    \/ Fetch
    \/ Normalize
    \/ FeatureEngineering
    \/ CheckColumns
    \/ DropNa
    \/ GetLatest
    \/ PredictReg
    \/ PredictClf
    \/ PredictSignal
    \/ Decode
    \/ Display

Spec == Init /\ [][Next]_vars

(* ---------------------- vocabulary of the properties ------------------ *)

Terminal == pc \in {"done", "stopped", "crashed"}

\* The frame has been through reset_index and column normalisation.
Normalized == df # None /\ df.index = None

\* The frame is still as the provider returned it.
Raw == df # None /\ df.index # None

Cell(d, i, name) == d.data[i][ColIdx(d, name)]

RequiredCols == {OpenName, HighName, LowName, CloseName, VolumeName, DateName}

DerivedCols == {Sma5Name, Sma10Name, PriceRangeName, DailyChangeName,
                RollingStd5Name, CloseOverOpenName}

\* The ten model inputs in the order open, high, low, volume, sma_5,
\* sma_10, price_range, daily_change_pct, rolling_std_5, close_over_open.
VectorOrder ==
    << OpenName, HighName, LowName, VolumeName, Sma5Name, Sma10Name,
       PriceRangeName, DailyChangeName, RollingStd5Name, CloseOverOpenName >>

RowVector(d, i) == [k \in 1..10 |-> Cell(d, i, VectorOrder[k])]

HasMissing(d, i) == \E k \in 1..10 : Cell(d, i, VectorOrder[k]) = NaN

LacksRequired == \E c \in RequiredCols : ~HasCol(df, c)

\* The run stopped on one reported error, without calling a model and
\* without producing or displaying any prediction.
FailedClosed ==
    /\ pc = "stopped"
    /\ Len(errors) = 1
    /\ exc = None
    /\ calls = <<>>
    /\ pred_close = None /\ pred_direction = None /\ pred_signal = None
    /\ shown = None

DateKey(t) == t.y * 10000 + t.m * 100 + t.d

(* ------------------------------- C1 ----------------------------------- *)

\* A step that meets a malformed input: the fetch returns an empty table,
\* or the rows reach the drop-NA stage fewer than ten.
C1_MalformedStep ==
    /\ (pc = "fetch" /\ IsEmpty(df')) => FailedClosed'
    /\ (pc = "dropna" /\ Len(df.data) < 10) => FailedClosed'

\* C1: for every malformed input (an empty fetched series, a series of
\* fewer than 10 rows, a series lacking one of Open, High, Low, Close,
\* Volume, Date) the run ends with exactly one classified error, calls no
\* model, displays no prediction and never ends in an unclassified crash.
C1_FailClosed ==
    /\ [][C1_MalformedStep]_vars
    /\ []((Terminal /\ Normalized /\ LacksRequired) => FailedClosed)
    /\ []((Terminal /\ Raw /\ IsEmpty(df)) => FailedClosed)

(* ------------------------------- C7 ----------------------------------- *)

\* The required columns the normalised frame lacks.
C7_Missing == {c \in RequiredCols : ~HasCol(df, c)}

\* C7: the required columns are checked for presence before any derived
\* feature is computed: a frame holds a derived column only when it holds
\* every required column, and a run on a frame lacking a required column
\* ends with the schema error naming the missing columns.
C7_SchemaBeforeArithmetic ==
    Normalized =>
        /\ (\E f \in DerivedCols : HasCol(df, f)) => ~LacksRequired
        /\ (Terminal /\ LacksRequired) =>
              /\ FailedClosed
              /\ errors[1].msg = "Missing columns in data"
              /\ {errors[1].detail[j] : j \in 1..Len(errors[1].detail)}
                    = C7_Missing

(* ------------------------------- C2 ----------------------------------- *)

\* The frame holds both division features.
C2_Featured ==
    /\ Normalized
    /\ HasCol(df, OpenName)
    /\ HasCol(df, DailyChangeName)
    /\ HasCol(df, CloseOverOpenName)

\* Row i is usable but for its open of 0.
C2_OnlyZeroOpenUsable ==
    /\ \E i \in 1..Len(df.data) : ~HasMissing(df, i)
    /\ \A i \in 1..Len(df.data) :
          ~HasMissing(df, i) => Cell(df, i, OpenName) = IntVal(0)

\* C2: a row whose open is 0 has daily_change_pct and close_over_open
\* missing; it is never the selected row, and when the only rows usable
\* otherwise are such rows the run stops on the insufficient-data error
\* without calling a model.
C2_ZeroOpenUndefined ==
    /\ [](C2_Featured =>
            \A i \in 1..Len(df.data) :
                Cell(df, i, OpenName) = IntVal(0) =>
                    /\ Cell(df, i, DailyChangeName) = NaN
                    /\ Cell(df, i, CloseOverOpenName) = NaN)
    /\ [](latest_input # None => latest_input[1] # IntVal(0))
    /\ [][(pc = "dropna" /\ C2_OnlyZeroOpenUsable) =>
            (FailedClosed' /\ errors'[1].msg = "Not enough recent data for prediction.")]_vars

(* ------------------------------- C3 ----------------------------------- *)

C8_LenientSignal ==
    [][ /\ pc = "decode" =>
             /\ pc' = "display" /\ errors' = errors /\ exc' = exc
             /\ pred_signal = 0 => signal_text' = "SELL"
             /\ pred_signal = 1 => signal_text' = "HOLD"
             /\ pred_signal = 2 => signal_text' = "BUY"
             /\ pred_signal \notin {0, 1, 2} => signal_text' = "Unknown"
        /\ pc = "display" =>
             /\ pc' = "done" /\ shown'.signal = signal_text ]_vars

C8_Witness ==
    pc = "done" /\ pred_signal = 9 /\ shown.signal = "Unknown"

(* ------------------------------- C5 ----------------------------------- *)

RECURSIVE C5_Total(_)
C5_Total(seq) == IF seq = <<>> THEN 0 ELSE Head(seq) + C5_Total(Tail(seq))

\* The closes of the w rows ending at row i.
C5_Closes(i, w) ==
    [j \in 1..w |-> Cell(df, i - w + j, CloseName).n]

\* Every close of the w rows ending at row i is present.
C5_Present(i, w) ==
    i >= w /\ \A j \in 1..w : Cell(df, i - w + j, CloseName) # NaN

\* v is the mean of the closes of the w rows ending at row i.
C5_IsMean(v, i, w) ==
    v.k = "num" /\ v.n * w = v.d * C5_Total(C5_Closes(i, w))

\* v is the sample standard deviation of the closes of the 5 rows ending
\* at row i: v^2 = sum((x - mean)^2) / 4 = sum((5x - S)^2) / 100.
C5_IsStd5(v, i) ==
    LET x == C5_Closes(i, 5)
        S == C5_Total(x)
    IN  /\ v.k = "sqrt"
        /\ v.n * 100 = v.d * C5_Total([j \in 1..5 |-> (5 * x[j] - S) * (5 * x[j] - S)])

\* The feature block ran to its end on the full frame.
C5_Computed == pc \in {"check", "dropna"}

\* C5 as claimed, on a frame whose closes are all present: the row at
\* 0-indexed position p has sma_5, sma_10 and rolling_std_5 all missing
\* when p < 9, and all defined and equal to their statistic when p >= 9.
C5_WindowCompleteness ==
    (C5_Computed /\ \A i \in 1..Len(df.data) : Cell(df, i, CloseName) # NaN) =>
        \A i \in 1..Len(df.data) :
            IF i - 1 < 9
            THEN /\ Cell(df, i, Sma5Name) = NaN
                 /\ Cell(df, i, Sma10Name) = NaN
                 /\ Cell(df, i, RollingStd5Name) = NaN
            ELSE /\ C5_IsMean(Cell(df, i, Sma5Name), i, 5)
                 /\ C5_IsMean(Cell(df, i, Sma10Name), i, 10)
                 /\ C5_IsStd5(Cell(df, i, RollingStd5Name), i)

\* C5 (amended): each rolling field has its own warm-up.  At 0-indexed
\* position p, sma_5 and rolling_std_5 are missing when p < 4 and sma_10
\* when p < 9; from there on a field is defined exactly when no close of
\* its trailing inclusive window is missing, and then equals the mean of
\* the last 5 closes, the mean of the last 10 closes, and the sample
\* standard deviation of the last 5 closes.
C5_WindowPerField ==
    C5_Computed =>
        \A i \in 1..Len(df.data) :
            /\ IF i - 1 >= 4 /\ C5_Present(i, 5)
               THEN /\ C5_IsMean(Cell(df, i, Sma5Name), i, 5)
                    /\ C5_IsStd5(Cell(df, i, RollingStd5Name), i)
               ELSE /\ Cell(df, i, Sma5Name) = NaN
                    /\ Cell(df, i, RollingStd5Name) = NaN
            /\ IF i - 1 >= 9 /\ C5_Present(i, 10)
               THEN C5_IsMean(Cell(df, i, Sma10Name), i, 10)
               ELSE Cell(df, i, Sma10Name) = NaN

\* A full frame of ten or more rows in which row 5 has its 5-row fields
\* but no sma_10, row 4 has none, and row 10 has all three.
C5_Witness ==
    /\ C5_Computed
    /\ Len(df.data) >= 10
    /\ \A i \in 1..Len(df.data) : Cell(df, i, CloseName) # NaN
    /\ Cell(df, 4, Sma5Name) = NaN
    /\ Cell(df, 5, Sma5Name) # NaN
    /\ Cell(df, 5, RollingStd5Name) # NaN
    /\ Cell(df, 5, Sma10Name) = NaN
    /\ Cell(df, 10, Sma10Name) # NaN
    /\ Cell(df, 10, RollingStd5Name).n > 0

(* ------------------------------- C4 ----------------------------------- *)

\* The drop-NA step keeps exactly the rows without a missing feature, in
\* their order; with none left the run stops on the insufficient-data
\* error and no model is called.
C4_DropStep ==
    LET kept == {i \in 1..Len(df.data) : ~HasMissing(df, i)}
    IN  /\ Len(df'.data) = Cardinality(kept)
        /\ \A i \in kept : \E j \in 1..Len(df'.data) : df'.data[j] = df.data[i]
        /\ \A j \in 1..Len(df'.data) : ~HasMissing(df', j)
        /\ HasCol(df, DateName) =>
              \A j \in 1..Len(df'.data) - 1 :
                  DateKey(Cell(df', j, DateName))
                      < DateKey(Cell(df', j + 1, DateName))
        /\ IF kept = {}
           THEN /\ FailedClosed'
                /\ errors'[1].msg = "Not enough recent data for prediction."
           ELSE pc' = "latest" /\ errors' = errors

\* The selection step takes the vector and the date from the remaining
\* row of maximum date.
C4_SelectStep ==
    \E i \in 1..Len(df.data) :
        /\ \A j \in 1..Len(df.data) :
              DateKey(Cell(df, j, DateName)) <= DateKey(Cell(df, i, DateName))
        /\ latest_input' = RowVector(df, i)
        /\ latest_date' = Strftime(Cell(df, i, DateName))
        /\ df' = df

\* C4: of the feature rows in ascending date order the selector removes
\* every row with a missing value in any of the ten feature fields; if no
\* row remains the run fails with the insufficient-data error and calls no
\* model; otherwise the selected row is the remaining row of maximum date.
C4_RowSelection ==
    [][ /\ pc = "dropna" => C4_DropStep
        /\ (pc = "latest" /\ HasCol(df, DateName)) => C4_SelectStep ]_vars

\* Rows were removed, several remain, and the newest one was selected.
C4_Witness ==
    /\ pc = "predict_reg"
    /\ Len(df.data) >= 2
    /\ latest_input = RowVector(df, Len(df.data))
    /\ latest_input # RowVector(df, 1)

(* ------------------------------- C6 ----------------------------------- *)

PredictionMsg == "Error during prediction"

\* A model call of this run raised.
C6_Raised == pc = "stopped" /\ calls # <<>>

\* Nothing of a prediction has been displayed.
C6_NothingShown == shown = None

\* Predictions are displayed only after three successful calls, one per
\* model, and no error.
C6_ShownOnlyAfterAll ==
    shown # None =>
        /\ pc = "done"
        /\ errors = <<>>
        /\ [c \in 1..Len(calls) |-> calls[c].model]
              = <<"reg_model", "clf_model", "signal_model">>

C9_SameVector ==
    \A c \in 1..Len(calls) :
        /\ Len(calls[c].x) = 10
        /\ calls[c].x = RowVector(df, Len(df.data))
        /\ calls[c].x = calls[1].x
        /\ calls[c].model = <<"reg_model", "clf_model", "signal_model">>[c]

C9_Witness ==
    /\ Len(calls) = 3
    /\ calls[3].x[5] # calls[3].x[6]

(* ------------------------------- C10 ---------------------------------- *)

\* C10: the displayed date is the date of the row the vector was taken
\* from, the last row left after the incomplete rows were dropped.
C10_DateOfVectorRow ==
    pc = "done" =>
        /\ shown.date = Strftime(Cell(df, Len(df.data), DateName))
        /\ shown.table = RowVector(df, Len(df.data))
        /\ \A c \in 1..Len(calls) : calls[c].x = shown.table
        /\ ~HasMissing(df, Len(df.data))
        /\ \A i \in 1..Len(df.data) :
              shown.date = Strftime(Cell(df, i, DateName))
                  => shown.table = RowVector(df, i)

\* A prediction displayed from a frame in which several rows remained.
C10_Witness ==
    /\ pc = "done"
    /\ Len(df.data) >= 2
    /\ shown.date = Strftime(Cell(df, Len(df.data), DateName))
    /\ shown.date # Strftime(Cell(df, 1, DateName))

====
